---- MODULE Spec2Model ----
(***************************************************************************)
(* Model of SimpleDocumentProcessor (src/simple_mcp_server.py): the        *)
(* documents directory, the in-memory document_cache, process_document,    *)
(* scan_documents, search_documents, get_document_stats, and the tool      *)
(* handler handle_call_tool of the server.                                 *)
(*                                                                         *)
(* Text is a sequence of one-character strings.  Positions are 0-based as  *)
(* in Python; TLA+ sequences are 1-based, so character i of s is s[i+1].   *)
(***************************************************************************)
EXTENDS Integers, Sequences, FiniteSets, TLC

VARIABLES fs, document_cache, last, ret, fsChanges, tasks

vars == <<fs, document_cache, last, ret, fsChanges, tasks>>

(***************************************************************************)
(* Bounds of the model.                                                    *)
(***************************************************************************)
MaxFsChanges == 2
MaxMaxResults == 6
MaxBodyLen == 22

(***************************************************************************)
(* Program constants.                                                      *)
(***************************************************************************)
MaxMatchesPerDoc == 5
ContextChars == 150
MinDetectLen == 20

Min(a, b) == IF a <= b THEN a ELSE b
Max(a, b) == IF a >= b THEN a ELSE b

\* the concatenation of a sequence of sequences, by halves
RECURSIVE Concat(_)
Concat(ss) ==
    IF ss = <<>> THEN <<>>
    ELSE IF Len(ss) = 1 THEN ss[1]
    ELSE LET half == Len(ss) \div 2
         IN  Concat(SubSeq(ss, 1, half)) \o Concat(SubSeq(ss, half + 1, Len(ss)))

(***************************************************************************)
(* Characters.  "I_dot" stands for U+0130, the one character whose         *)
(* str.lower() is two characters long ("i" followed by U+0307, "c_dot").   *)
(***************************************************************************)
LowerChar(c) ==
    CASE c = "A" -> <<"a">>
      [] c = "B" -> <<"b">>
      [] c = "D" -> <<"d">>
      [] c = "F" -> <<"f">>
      [] c = "P" -> <<"p">>
      [] c = "T" -> <<"t">>
      [] c = "X" -> <<"x">>
      [] c = "I_dot" -> <<"i", "c_dot">>
      [] OTHER -> <<c>>

\* str.lower(); a text without U+0130 keeps its length
Lower(s) ==
    IF \A i \in 1..Len(s) : s[i] # "I_dot"
    THEN [i \in 1..Len(s) |-> LowerChar(s[i])[1]]
    ELSE Concat([i \in 1..Len(s) |-> LowerChar(s[i])])

\* the classes \s and \w of the re module
IsSpace(c) == c \in {" ", "\n"}
IsWord(c) == c \notin {" ", "\n", ".", ",", "!", "*", "c_dot"}

\* str.strip()
RECURSIVE LStrip(_)
LStrip(s) == IF s # <<>> /\ IsSpace(Head(s)) THEN LStrip(Tail(s)) ELSE s

RECURSIVE RStrip(_)
RStrip(s) ==
    IF s # <<>> /\ IsSpace(s[Len(s)]) THEN RStrip(SubSeq(s, 1, Len(s) - 1)) ELSE s

Strip(s) == RStrip(LStrip(s))

\* s[a:b] for 0 <= a, 0 <= b
Slice(s, a, b) == SubSeq(s, a + 1, Min(b, Len(s)))

\* str.find(sub, start): lowest index >= start where sub occurs, else -1
Find(s, sub, start) ==
    LET cands == {i \in start..(Len(s) - Len(sub)) :
                     SubSeq(s, i + 1, i + Len(sub)) = sub}
    IN  IF cands = {} THEN -1
        ELSE CHOOSE i \in cands : \A j \in cands : i <= j

\* str.replace(old, new): every non-overlapping occurrence, left to right;
\* an empty old matches before every character and at the end
RECURSIVE ReplaceFrom(_, _, _)
ReplaceFrom(s, old, new) ==
    IF old = <<>>
    THEN new \o Concat([i \in 1..Len(s) |-> <<s[i]>> \o new])
    ELSE LET pos == Find(s, old, 0)
         IN  IF pos = -1 THEN s
             ELSE SubSeq(s, 1, pos) \o new
                  \o ReplaceFrom(SubSeq(s, pos + Len(old) + 1, Len(s)), old, new)

Replace(s, old, new) == ReplaceFrom(s, old, new)

(***************************************************************************)
(* Paths.  A path is its directory and its final component (name).         *)
(***************************************************************************)
Name_a_txt == <<"a", ".", "t", "x", "t">>
Name_b_PDF == <<"b", ".", "P", "D", "F">>
Name_c_xyz == <<"c", ".", "x", "y", "z">>

Paths ==
    { [dir |-> "documents",     name |-> Name_a_txt],
      [dir |-> "documents/sub", name |-> Name_a_txt],
      [dir |-> "documents",     name |-> Name_b_PDF],
      [dir |-> "documents",     name |-> Name_c_xyz] }

NoPath == [dir |-> "", name |-> <<>>]

\* PurePath.suffix: the name from its last dot, unless that dot is the first
\* or the last character of the name
Suffix(p) ==
    LET dots == {i \in 1..Len(p.name) : p.name[i] = "."}
    IN  IF dots = {} THEN <<>>
        ELSE LET i == CHOOSE d \in dots : \A e \in dots : e <= d
             IN  IF 1 < i /\ i < Len(p.name)
                 THEN SubSeq(p.name, i, Len(p.name))
                 ELSE <<>>

Ext_pdf  == <<".", "p", "d", "f">>
Ext_docx == <<".", "d", "o", "c", "x">>
Ext_xlsx == <<".", "x", "l", "s", "x">>
Ext_txt  == <<".", "t", "x", "t">>

supported_extensions == {Ext_pdf, Ext_docx, Ext_xlsx, Ext_txt}

\* the extractors table of process_document: extension -> file_type label
extractors ==
    [e \in supported_extensions |->
        CASE e = Ext_pdf  -> "PDF"
          [] e = Ext_docx -> "Word Document"
          [] e = Ext_xlsx -> "Excel Spreadsheet"
          [] e = Ext_txt  -> "Text File"]

(***************************************************************************)
(* The documents directory.  fs[p] is what is at path p: nothing or a file. *)
(* raw is the text the format library reads from the file; it is empty or  *)
(* blank for an empty, corrupt or unreadable file.                         *)
(***************************************************************************)
Absent == [kind |-> "absent", raw |-> <<>>, size |-> 0, mtime |-> 0]

TxtMany  == <<"a", "A", "a", "A", "a", "A", "a">>
TxtBlank == <<" ">>
TxtLong  == <<"a", "b", ".", " ", "A", "b", " ", "a", "a", " ", "x", "y",
              "x", "y", "x", "y", "x", "y", "x", "y", "x", "y", "x", "y", "!">>

FileVersions ==
    { [kind |-> "file", raw |-> TxtBlank, size |-> 1,  mtime |-> 1],
      [kind |-> "file", raw |-> TxtMany,  size |-> 7,  mtime |-> 2],
      [kind |-> "file", raw |-> TxtLong,  size |-> 25, mtime |-> 3] }

\* Path.exists(), Path.is_file()
Exists(f, p) == f[p].kind # "absent"
IsFile(f, p) == f[p].kind = "file"

\* extract_text_from_txt returns the decoded text as it is;
\* extract_text_from_pdf / _docx / _xlsx return text.strip().
\* Every one of them returns "" when the library raises.
ExtractText(f, p, ext) ==
    IF f[p].kind # "file" THEN <<>>
    ELSE IF ext = Ext_txt THEN f[p].raw
    ELSE Strip(f[p].raw)

(***************************************************************************)
(* detect_language.  langdetect.detect raises on a text without letters    *)
(* (no features).  On other texts it samples at random, and the program    *)
(* never seeds it: on a text as ambiguous as the ones here it may return   *)
(* one language in one call and another in the next.  Its outcome is an    *)
(* input of every call that reaches it.                                    *)
(***************************************************************************)
DetectOutcomes == {"en", "ja", "raise"}

Digits == {"0", "1", "2", "3", "4", "5", "6", "7", "8", "9"}

\* what detect may do on a text
DetectResults(text) ==
    IF \E i \in 1..Len(text) : IsWord(text[i]) /\ text[i] \notin Digits \cup {"_"}
    THEN {"en", "ja"}
    ELSE {"raise"}

\* re.sub(r'[^\w\s]', '', text)
IsWordOrSpace(c) == IsWord(c) \/ IsSpace(c)

CleanText(text) == SelectSeq(text, IsWordOrSpace)

\* a length test on the cleaned text as it is, blanks at its ends counted
DetectorCalled_untrimmed(text) == Len(CleanText(text)) > MinDetectLen

\* len(clean_text.strip()) > 20: the detector is called
DetectorCalled(text) == Len(Strip(CleanText(text))) > MinDetectLen

\* outcome is what detect(clean_text) does if it is called
detect_language(text, outcome) ==
    IF DetectorCalled(text)
    THEN IF outcome = "raise" THEN "unknown" ELSE outcome
    ELSE "unknown"

(***************************************************************************)
(* document_cache is a dict: a sequence of key/value items in insertion    *)
(* order.  Assigning to a present key keeps the item's place.              *)
(***************************************************************************)
Keys(cache) == {cache[i].key : i \in 1..Len(cache)}

\* an assignment that rebuilds the dict around the one new item
DictSet_fresh(cache, k, v) == <<[key |-> k, doc |-> v]>>

DictSet(cache, k, v) ==
    IF k \in Keys(cache)
    THEN [i \in 1..Len(cache) |->
             IF cache[i].key = k THEN [key |-> k, doc |-> v] ELSE cache[i]]
    ELSE Append(cache, [key |-> k, doc |-> v])

DictGet(cache, k) == cache[CHOOSE i \in 1..Len(cache) : cache[i].key = k].doc

\* process_document without the check for empty extracted text
process_document_no_empty_check(cache, f, p, outcomes) ==
    IF ~Exists(f, p) THEN [cache |-> cache, doc |-> <<>>]
    ELSE
      LET file_extension == Lower(Suffix(p)) IN
      IF file_extension \notin supported_extensions
      THEN [cache |-> cache, doc |-> <<>>]
      ELSE
        LET text == ExtractText(f, p, file_extension)
            doc_info == [path |-> p,
                         filename |-> p.name,
                         content |-> text,
                         language |-> detect_language(text, outcomes[p]),
                         file_type |-> extractors[file_extension],
                         size |-> f[p].size,
                         last_modified |-> f[p].mtime]
        IN  [cache |-> DictSet(cache, p, doc_info), doc |-> <<doc_info>>]

\* process_document that reads a file of an unknown extension as plain text
process_document_default_txt(cache, f, p, outcomes) ==
    IF ~Exists(f, p) THEN [cache |-> cache, doc |-> <<>>]
    ELSE
      LET suffix_lower == Lower(Suffix(p))
          file_extension == IF suffix_lower \in supported_extensions
                            THEN suffix_lower ELSE Ext_txt
          text == ExtractText(f, p, file_extension)
      IN
        IF text = <<>> THEN [cache |-> cache, doc |-> <<>>]
        ELSE
          LET doc_info == [path |-> p,
                           filename |-> p.name,
                           content |-> text,
                           language |-> detect_language(text, outcomes[p]),
                           file_type |-> extractors[file_extension],
                           size |-> f[p].size,
                           last_modified |-> f[p].mtime]
          IN  [cache |-> DictSet(cache, p, doc_info), doc |-> <<doc_info>>]

\* process_document: the new cache and the returned record (<<>> is None)
process_document(cache, f, p, outcomes) ==
    IF ~Exists(f, p) THEN [cache |-> cache, doc |-> <<>>]
    ELSE
      LET file_extension == Lower(Suffix(p)) IN
      IF file_extension \notin supported_extensions
      THEN [cache |-> cache, doc |-> <<>>]
      ELSE
        LET text == ExtractText(f, p, file_extension) IN
        IF text = <<>> THEN [cache |-> cache, doc |-> <<>>]
        ELSE
          LET doc_info == [path |-> p,
                           filename |-> p.name,
                           content |-> text,
                           language |-> detect_language(text, outcomes[p]),
                           file_type |-> extractors[file_extension],
                           size |-> f[p].size,
                           last_modified |-> f[p].mtime]
          IN  [cache |-> DictSet(cache, p, doc_info), doc |-> <<doc_info>>]

\* the filter of the scan loop with a case-sensitive comparison
IsScanned_case_sensitive(f, p) ==
    IsFile(f, p) /\ Suffix(p) \in supported_extensions

\* the filter of the scan loop:
\* file_path.is_file() and file_path.suffix.lower() in supported_extensions
IsScanned(f, p) ==
    IsFile(f, p) /\ Lower(Suffix(p)) \in supported_extensions

\* a scan loop that stops at the first file that yields no record
RECURSIVE ScanLoop_abort(_, _, _, _, _)
ScanLoop_abort(order, cache, documents, f, outcomes) ==
    IF order = <<>> THEN [cache |-> cache, documents |-> documents]
    ELSE
      LET p == Head(order) IN
      IF IsScanned(f, p)
      THEN LET r == process_document(cache, f, p, outcomes)
           IN  IF r.doc = <<>>
               THEN [cache |-> cache, documents |-> documents]
               ELSE ScanLoop_abort(Tail(order), r.cache, documents \o r.doc,
                                   f, outcomes)
      ELSE ScanLoop_abort(Tail(order), cache, documents, f, outcomes)

\* the loop of scan_documents over the paths rglob yields, in its order
RECURSIVE ScanLoop(_, _, _, _, _)
ScanLoop(order, cache, documents, f, outcomes) ==
    IF order = <<>> THEN [cache |-> cache, documents |-> documents]
    ELSE
      LET p == Head(order) IN
      IF IsScanned(f, p)
      THEN LET r == process_document(cache, f, p, outcomes)
           IN  ScanLoop(Tail(order), r.cache, documents \o r.doc, f, outcomes)
      ELSE ScanLoop(Tail(order), cache, documents, f, outcomes)

\* a scan that rebuilds the cache from nothing
scan_documents_replacing(cache, f, order, outcomes) ==
    ScanLoop(order, <<>>, <<>>, f, outcomes)

scan_documents(cache, f, order, outcomes) ==
    ScanLoop(order, cache, <<>>, f, outcomes)

(***************************************************************************)
(* search_documents.                                                       *)
(***************************************************************************)
\* the collecting loop with the cap tested one match too late
RECURSIVE FindMatches_late_cap(_, _, _, _)
FindMatches_late_cap(content_lower, query_lower, start, matches) ==
    LET pos == Find(content_lower, query_lower, start) IN
    IF pos = -1 THEN matches
    ELSE LET found == Append(matches, pos) IN
         IF Len(found) > MaxMatchesPerDoc THEN found
         ELSE FindMatches_late_cap(content_lower, query_lower, pos + 1, found)

\* the while loop that collects the match positions of one document
RECURSIVE FindMatches(_, _, _, _)
FindMatches(content_lower, query_lower, start, matches) ==
    LET pos == Find(content_lower, query_lower, start) IN
    IF pos = -1 THEN matches
    ELSE LET found == Append(matches, pos) IN
         IF Len(found) >= MaxMatchesPerDoc THEN found
         ELSE FindMatches(content_lower, query_lower, pos + 1, found)

\* context = doc_info.content[context_start:context_end]
ContextWindow(content, query, pos) ==
    LET context_start == Max(0, pos - ContextChars)
        context_end   == Min(Len(content), pos + Len(query) + ContextChars)
    IN  Slice(content, context_start, context_end)

\* doc_info.content[pos:pos + len(query)]
Matched(content, query, pos) == Slice(content, pos, pos + Len(query))

\* a highlight that marks the first occurrence only: replace(old, new, 1)
Highlight_first_only(context, matched) ==
    IF matched = <<>> THEN <<"*", "*", "*", "*">> \o context
    ELSE LET at == Find(context, matched, 0) IN
         IF at = -1 THEN context
         ELSE SubSeq(context, 1, at) \o <<"*", "*">> \o matched \o <<"*", "*">>
              \o SubSeq(context, at + Len(matched) + 1, Len(context))

\* context.replace(matched, f"**{matched}**")
Highlight(context, matched) ==
    Replace(context, matched, <<"*", "*">> \o matched \o <<"*", "*">>)

\* the context of the match at pos, with the highlight
Context(content, query, pos) ==
    Highlight(ContextWindow(content, query, pos), Matched(content, query, pos))

\* a match record numbered from 0
SearchMatch_zero_based(doc_info, query, matches, i) ==
    [filename      |-> doc_info.filename,
     path          |-> doc_info.path,
     language      |-> doc_info.language,
     file_type     |-> doc_info.file_type,
     context       |-> Context(doc_info.content, query, matches[i]),
     position      |-> matches[i],
     match_number  |-> i - 1,
     total_matches |-> Len(matches),
     size          |-> doc_info.size]

\* the dict appended to results; enumerate counts i from 0, here from 1
SearchMatch(doc_info, query, matches, i) ==
    [filename      |-> doc_info.filename,
     path          |-> doc_info.path,
     language      |-> doc_info.language,
     file_type     |-> doc_info.file_type,
     context       |-> Context(doc_info.content, query, matches[i]),
     position      |-> matches[i],
     match_number  |-> i,
     total_matches |-> Len(matches),
     size          |-> doc_info.size]

\* for i, pos in enumerate(matches): append, then break at max_results
RECURSIVE EmitMatches(_, _, _, _, _, _)
EmitMatches(doc_info, query, matches, i, results, max_results) ==
    IF i > Len(matches) THEN results
    ELSE LET appended == Append(results, SearchMatch(doc_info, query, matches, i))
         IN  IF Len(appended) >= max_results THEN appended
             ELSE EmitMatches(doc_info, query, matches, i + 1, appended, max_results)

\* a query that is searched for as it was typed
query_lower_as_typed(query) == query

\* query_lower = query.lower()
query_lower(query) == Lower(query)

\* the loop over the documents without the test of max_results after a
\* document
RECURSIVE SearchLoop_no_outer_break(_, _, _, _, _)
SearchLoop_no_outer_break(cache, i, query, results, max_results) ==
    IF i > Len(cache) THEN results
    ELSE
      LET doc_info == cache[i].doc
          matches  == FindMatches(Lower(doc_info.content), query_lower(query), 0, <<>>)
          emitted  == IF matches # <<>>
                      THEN EmitMatches(doc_info, query, matches, 1, results, max_results)
                      ELSE results
      IN  SearchLoop_no_outer_break(cache, i + 1, query, emitted, max_results)

\* for doc_info in self.document_cache.values(), from the i-th item on
RECURSIVE SearchLoop(_, _, _, _, _)
SearchLoop(cache, i, query, results, max_results) ==
    IF i > Len(cache) THEN results
    ELSE
      LET doc_info == cache[i].doc
          matches  == FindMatches(Lower(doc_info.content), query_lower(query), 0, <<>>)
          emitted  == IF matches # <<>>
                      THEN EmitMatches(doc_info, query, matches, 1, results, max_results)
                      ELSE results
      IN  IF Len(emitted) >= max_results THEN emitted
          ELSE SearchLoop(cache, i + 1, query, emitted, max_results)

search_documents(cache, query, max_results) ==
    SearchLoop(cache, 1, query, <<>>, max_results)

(***************************************************************************)
(* The state machine.  last is the last thing that happened (a call with   *)
(* its arguments, or a change of the directory from outside) and ret is    *)
(* what the call returned: a list of records, a list of matches, or the    *)
(* Optional record of process_document as a list of at most one.  tasks    *)
(* are the tool calls in flight on the event loop; it is empty where calls *)
(* are taken one by one.                                                   *)
(***************************************************************************)
Queries ==
    { <<>>, <<"a", "a">>, <<"A", "a">>, <<"a", "b">>, <<"z">> }

MaxResultsArgs == 0..MaxMaxResults

Event(op, p, q, m) == [op |-> op, path |-> p, query |-> q, max_results |-> m]

\* the orders in which rglob may yield the entries of the directory
Orders(S) ==
    {o \in [1..Cardinality(S) -> S] : \A i, j \in 1..Cardinality(S) : i # j => o[i] # o[j]}

Init ==
    /\ fs = [p \in Paths |-> Absent]
    /\ document_cache = <<>>
    /\ last = Event("init", NoPath, <<>>, 0)
    /\ ret = <<>>
    /\ fsChanges = 0
    /\ tasks = <<>>

\* a file is created or rewritten from outside
WriteFile ==
    /\ fsChanges < MaxFsChanges
    /\ \E p \in Paths, v \in FileVersions :
          /\ fs[p] # v
          /\ fs' = [fs EXCEPT ![p] = v]
          /\ last' = Event("write", p, <<>>, 0)
    /\ fsChanges' = fsChanges + 1
    /\ ret' = <<>>
    /\ UNCHANGED <<document_cache, tasks>>

\* a file is removed from outside
DeleteFile ==
    /\ fsChanges < MaxFsChanges
    /\ \E p \in Paths :
          /\ Exists(fs, p)
          /\ fs' = [fs EXCEPT ![p] = Absent]
          /\ last' = Event("delete", p, <<>>, 0)
    /\ fsChanges' = fsChanges + 1
    /\ ret' = <<>>
    /\ UNCHANGED <<document_cache, tasks>>

\* the files among S with enough text for the detector to be called
DetectCalls(f, S) == {p \in S : IsFile(f, p) /\ DetectorCalled(f[p].raw)}

\* what the detector may do in the calls of one operation, per file
Outcomes(f, S) ==
    {o \in [DetectCalls(f, S) -> DetectOutcomes] :
        \A p \in DetectCalls(f, S) : o[p] \in DetectResults(f[p].raw)}

ProcessDocument ==
    /\ \E p \in Paths :
          \E outcomes \in Outcomes(fs, {p}) :
             LET r == process_document(document_cache, fs, p, outcomes) IN
             /\ document_cache' = r.cache
             /\ ret' = r.doc
             /\ last' = Event("process_document", p, <<>>, 0)
    /\ UNCHANGED <<fs, fsChanges, tasks>>

ScanDocuments ==
    /\ LET entries == {p \in Paths : Exists(fs, p)} IN
       \E order \in Orders(entries), outcomes \in Outcomes(fs, entries) :
              LET r == scan_documents(document_cache, fs, order, outcomes) IN
              /\ document_cache' = r.cache
              /\ ret' = r.documents
    /\ last' = Event("scan_documents", NoPath, <<>>, 0)
    /\ UNCHANGED <<fs, fsChanges, tasks>>

SearchDocuments ==
    /\ \E query \in Queries, max_results \in MaxResultsArgs :
          /\ ret' = search_documents(document_cache, query, max_results)
          /\ last' = Event("search_documents", NoPath, query, max_results)
    /\ UNCHANGED <<fs, document_cache, fsChanges, tasks>>

Next ==
    \/ WriteFile
    \/ DeleteFile
    \/ ProcessDocument
    \/ ScanDocuments

\* the processor as a library: constructed on an empty directory
Spec == Init /\ [][Next]_vars

(***************************************************************************)
(* The server: main() constructs the processor on a directory that may     *)
(* already hold files and scans it before it serves the first request.     *)
(***************************************************************************)
VersionOf(text) == CHOOSE v \in FileVersions : v.raw = text

InitDirs ==
    {f \in [Paths -> FileVersions \cup {Absent}] :
        /\ f[[dir |-> "documents", name |-> Name_a_txt]]
              \in {Absent, VersionOf(TxtMany), VersionOf(TxtLong)}
        /\ f[[dir |-> "documents/sub", name |-> Name_a_txt]]
              \in {Absent, VersionOf(TxtMany), VersionOf(TxtLong)}
        /\ f[[dir |-> "documents", name |-> Name_b_PDF]]
              \in {Absent, VersionOf(TxtMany), VersionOf(TxtBlank)}
        /\ f[[dir |-> "documents", name |-> Name_c_xyz]]
              \in {VersionOf(TxtMany)}}

ServerInit ==
    /\ fs \in InitDirs
    /\ LET entries == {p \in Paths : Exists(fs, p)} IN
       \E order \in Orders(entries), outcomes \in Outcomes(fs, entries) :
              LET r == scan_documents(<<>>, fs, order, outcomes) IN
              /\ document_cache = r.cache
              /\ ret = r.documents
    /\ last = Event("scan_documents", NoPath, <<>>, 0)
    /\ fsChanges = 0
    /\ tasks = <<>>

SearchNext == SearchDocuments

SearchSpec == ServerInit /\ [][SearchNext]_vars

(***************************************************************************)
(* get_document_stats.  A count map is a function from the keys seen to    *)
(* their counts.  The two rounded fields are kept in hundredths.           *)
(***************************************************************************)
BytesPerKiB == 1024

\* sum(doc.size for doc in self.document_cache.values())
RECURSIVE TotalSize(_)
TotalSize(cache) ==
    IF cache = <<>> THEN 0 ELSE Head(cache).doc.size + TotalSize(Tail(cache))

\* counts[key] = counts.get(key, 0) + 1 over the records, by one field
RECURSIVE CountBy(_, _, _)
CountBy(cache, field, counts) ==
    IF cache = <<>> THEN counts
    ELSE LET key == Head(cache).doc[field]
             counted == IF key \in DOMAIN counts
                        THEN [counts EXCEPT ![key] = @ + 1]
                        ELSE [k \in DOMAIN counts \cup {key} |->
                                 IF k = key THEN 1 ELSE counts[k]]
         IN  CountBy(Tail(cache), field, counted)

\* round(num / den, 2) in hundredths; a tie goes to the even neighbour
RoundHundredths(num, den) ==
    LET q == (100 * num) \div den
        r == (100 * num) % den
    IN  IF 2 * r < den THEN q
        ELSE IF 2 * r > den THEN q + 1
        ELSE IF q % 2 = 0 THEN q ELSE q + 1

\* statistics whose language counts stop after the first record
get_document_stats_one_language(cache) ==
    IF cache = <<>> THEN [total_documents |-> 0]
    ELSE LET total_size == TotalSize(cache) IN
         [total_documents  |-> Len(cache),
          total_size_bytes |-> total_size,
          total_size_mb    |-> RoundHundredths(total_size, BytesPerKiB * BytesPerKiB),
          languages        |-> CountBy(SubSeq(cache, 1, 1), "language", <<>>),
          file_types       |-> CountBy(cache, "file_type", <<>>),
          avg_size_kb      |-> RoundHundredths(total_size, Len(cache) * BytesPerKiB)]

get_document_stats(cache) ==
    IF cache = <<>> THEN [total_documents |-> 0]
    ELSE LET total_size == TotalSize(cache) IN
         [total_documents  |-> Len(cache),
          total_size_bytes |-> total_size,
          total_size_mb    |-> RoundHundredths(total_size, BytesPerKiB * BytesPerKiB),
          languages        |-> CountBy(cache, "language", <<>>),
          file_types       |-> CountBy(cache, "file_type", <<>>),
          avg_size_kb      |-> RoundHundredths(total_size, Len(cache) * BytesPerKiB)]

(***************************************************************************)
(* handle_call_tool.  Arguments arrive as JSON: a value carries its Python *)
(* type.  A dict is a function from its keys to values.                    *)
(***************************************************************************)
PyNone == [type |-> "NoneType"]
PyStr(s) == [type |-> "str", str |-> s]
PyInt(n) == [type |-> "int", int |-> n]
PyDict(items) == [type |-> "dict", items |-> items]

\* not arguments: None and the empty dict are falsy
Falsy(arguments) ==
    \/ arguments.type = "NoneType"
    \/ arguments.type = "dict" /\ DOMAIN arguments.items = {}

\* key in arguments
HasKey(arguments, key) == key \in DOMAIN arguments.items

\* str(n) for n >= 0
RECURSIVE IntToStr(_)
IntToStr(n) ==
    LET digit == <<"0", "1", "2", "3", "4", "5", "6", "7", "8", "9">>[(n % 10) + 1]
    IN  IF n < 10 THEN <<digit>> ELSE Append(IntToStr(n \div 10), digit)

\* str(x) inside an f-string
FormatValue(x) ==
    CASE x.type = "NoneType" -> <<"N", "o", "n", "e">>
      [] x.type = "str" -> x.str
      [] x.type = "int" -> IF x.int < 0 THEN <<"-">> \o IntToStr(0 - x.int)
                           ELSE IntToStr(x.int)

DefaultMaxResults == 50
PreviewChars == 200

\* what a tool branch does: the cache it leaves, the exception it raises
\* ("" if none) and the result it returns
Returned(cache, result) == [cache |-> cache, raised |-> "", result |-> result]
Raised(cache, exc) == [cache |-> cache, raised |-> exc, result |-> <<>>]

\* doc.content[:200] + "..." if len(doc.content) > 200 else doc.content
ContentPreview(content) ==
    IF Len(content) > PreviewChars
    THEN Slice(content, 0, PreviewChars) \o <<".", ".", ".">>
    ELSE content

\* the result of the scan_documents tool for the records of a scan
ScanResult(documents) ==
    [status    |-> "success",
     message   |-> <<"Scanned and processed ", IntToStr(Len(documents)),
                     " documents">>,
     documents |-> [i \in 1..Len(documents) |->
                      [filename        |-> documents[i].filename,
                       path            |-> documents[i].path,
                       language        |-> documents[i].language,
                       file_type       |-> documents[i].file_type,
                       size            |-> documents[i].size,
                       content_preview |-> ContentPreview(documents[i].content)]]]

\* name == "scan_documents"
call_scan_documents(cache, f, order, outcomes) ==
    LET r == scan_documents(cache, f, order, outcomes) IN
    Returned(r.cache, ScanResult(r.documents))

\* the search branch without the test for a missing query
call_search_documents_unchecked(cache, arguments) ==
    IF arguments.type # "dict" THEN Raised(cache, "TypeError")
    ELSE IF ~HasKey(arguments, "query") THEN Raised(cache, "KeyError")
    ELSE
      LET query == arguments.items["query"]
          max_results == IF HasKey(arguments, "max_results")
                         THEN arguments.items["max_results"]
                         ELSE PyInt(DefaultMaxResults)
      IN  IF query.type # "str" THEN Raised(cache, "AttributeError")
          ELSE IF max_results.type # "int"
          THEN IF cache = <<>>
               THEN Returned(cache, [status |-> "success", query |-> query,
                                     results_count |-> 0, results |-> <<>>])
               ELSE Raised(cache, "TypeError")
          ELSE LET results == search_documents(cache, query.str, max_results.int) IN
               Returned(cache, [status |-> "success", query |-> query,
                                results_count |-> Len(results),
                                results |-> results])

\* name == "search_documents".  query.lower() raises on a query that is no
\* string; len(results) >= max_results raises on a max_results that is no
\* number, at the first cached document.
call_search_documents(cache, arguments) ==
    IF Falsy(arguments) \/ ~HasKey(arguments, "query")
    THEN Returned(cache, [error |-> "query parameter is required"])
    ELSE
      LET query == arguments.items["query"]
          max_results == IF HasKey(arguments, "max_results")
                         THEN arguments.items["max_results"]
                         ELSE PyInt(DefaultMaxResults)
      IN  IF query.type # "str" THEN Raised(cache, "AttributeError")
          ELSE IF max_results.type # "int"
          THEN IF cache = <<>>
               THEN Returned(cache, [status |-> "success", query |-> query,
                                     results_count |-> 0, results |-> <<>>])
               ELSE Raised(cache, "TypeError")
          ELSE LET results == search_documents(cache, query.str, max_results.int) IN
               Returned(cache, [status |-> "success", query |-> query,
                                results_count |-> Len(results),
                                results |-> results])

\* a listing that takes the records out of the cache
call_list_documents_draining(cache) ==
    Returned(<<>>,
        [status          |-> "success",
         total_documents |-> Len(cache),
         documents       |-> [i \in 1..Len(cache) |->
                                [filename       |-> cache[i].doc.filename,
                                 path           |-> cache[i].doc.path,
                                 language       |-> cache[i].doc.language,
                                 file_type      |-> cache[i].doc.file_type,
                                 size           |-> cache[i].doc.size,
                                 content_length |-> Len(cache[i].doc.content)]]])

\* name == "list_documents"
call_list_documents(cache) ==
    Returned(cache,
        [status          |-> "success",
         total_documents |-> Len(cache),
         documents       |-> [i \in 1..Len(cache) |->
                                [filename       |-> cache[i].doc.filename,
                                 path           |-> cache[i].doc.path,
                                 language       |-> cache[i].doc.language,
                                 file_type      |-> cache[i].doc.file_type,
                                 size           |-> cache[i].doc.size,
                                 content_length |-> Len(cache[i].doc.content)]]])

\* name == "get_document_stats"
call_get_document_stats(cache) ==
    Returned(cache, [status |-> "success", stats |-> get_document_stats(cache)])

\* doc.filename == filename
FilenameIs(doc, filename) == filename.type = "str" /\ filename.str = doc.filename

\* the result of get_document_content for the record found, <<>> for None
ContentResult(found, filename) ==
    IF found = <<>>
    THEN [status  |-> "error",
          message |-> <<"Document '", FormatValue(filename), "' not found">>]
    ELSE [status    |-> "success",
          filename  |-> found[1].filename,
          path      |-> found[1].path,
          language  |-> found[1].language,
          file_type |-> found[1].file_type,
          size      |-> found[1].size,
          content   |-> found[1].content]

\* the lookup loop without its break: the last record of the name wins
FindByFilename_no_break(cache, filename) ==
    LET hits == {i \in 1..Len(cache) : FilenameIs(cache[i].doc, filename)}
    IN  IF hits = {} THEN <<>>
        ELSE << cache[CHOOSE i \in hits : \A j \in hits : j <= i].doc >>

\* for doc in document_cache.values(): if doc.filename == filename: break
FindByFilename(cache, filename) ==
    LET hits == {i \in 1..Len(cache) : FilenameIs(cache[i].doc, filename)}
    IN  IF hits = {} THEN <<>>
        ELSE << cache[CHOOSE i \in hits : \A j \in hits : i <= j].doc >>

\* name == "get_document_content"
call_get_document_content(cache, arguments) ==
    IF Falsy(arguments) \/ ~HasKey(arguments, "filename")
    THEN Returned(cache, [error |-> "filename parameter is required"])
    ELSE LET filename == arguments.items["filename"] IN
         Returned(cache, ContentResult(FindByFilename(cache, filename), filename))

\* the body of the try block
ToolBody(cache, f, order, outcomes, name, arguments) ==
    CASE name = "scan_documents" -> call_scan_documents(cache, f, order, outcomes)
      [] name = "search_documents" -> call_search_documents(cache, arguments)
      [] name = "list_documents" -> call_list_documents(cache)
      [] name = "get_document_stats" -> call_get_document_stats(cache)
      [] name = "get_document_content" -> call_get_document_content(cache, arguments)
      [] OTHER -> Returned(cache, [error |-> <<"Unknown tool: ", name>>])

\* the handler without its except clause
handle_call_tool_no_except(cache, f, order, outcomes, name, arguments) ==
    ToolBody(cache, f, order, outcomes, name, arguments)

\* try: ... except Exception as e: return the internal-error result
handle_call_tool(cache, f, order, outcomes, name, arguments) ==
    LET r == ToolBody(cache, f, order, outcomes, name, arguments) IN
    IF r.raised # ""
    THEN Returned(r.cache, [error |-> <<"Internal server error: ", r.raised>>])
    ELSE r

(***************************************************************************)
(* The server answering tool calls.  A call is handle_call_tool with a     *)
(* tool name and an arguments value; ret is what the call did.             *)
(***************************************************************************)
ToolNames ==
    {"scan_documents", "search_documents", "list_documents",
     "get_document_stats", "get_document_content"}

CallNames == ToolNames \cup {"delete_document"}

NameArgs == {Name_a_txt, Name_b_PDF, Name_c_xyz}

\* the arguments of the calls: None, {}, and dicts with and without the
\* keys the tools read
Arguments ==
    {PyNone, PyDict(<<>>)}
    \cup {PyDict([query |-> PyStr(q)]) : q \in {<<>>, <<"A", "a">>, <<"z">>}}
    \cup {PyDict([query |-> PyStr(<<"a", "b">>), max_results |-> m]) :
             m \in {PyInt(1), PyNone}}
    \cup {PyDict([query |-> PyInt(7)]), PyDict([max_results |-> PyInt(1)])}
    \cup {PyDict([filename |-> PyStr(n)]) : n \in NameArgs}
    \cup {PyDict([filename |-> PyNone])}

\* the arguments sent with a tool that reads none of them
ArgumentsOf(name) ==
    IF name \in {"search_documents", "get_document_content"}
    THEN Arguments
    ELSE {PyNone, PyDict([query |-> PyStr(<<"z">>)])}

HandlerDirs ==
    {f \in [Paths -> FileVersions \cup {Absent}] :
        /\ f[[dir |-> "documents", name |-> Name_a_txt]]
              \in {VersionOf(TxtMany), VersionOf(TxtLong)}
        /\ f[[dir |-> "documents/sub", name |-> Name_a_txt]]
              \in {Absent, VersionOf(TxtMany)}
        /\ f[[dir |-> "documents", name |-> Name_b_PDF]]
              \in {Absent, VersionOf(TxtMany)}
        /\ f[[dir |-> "documents", name |-> Name_c_xyz]] = Absent}

\* main() on a directory that is empty or holds files
HandlerInit ==
    /\ fs \in HandlerDirs \cup {[p \in Paths |-> Absent]}
    /\ LET entries == {p \in Paths : Exists(fs, p)} IN
       \E order \in Orders(entries), outcomes \in Outcomes(fs, entries) :
              LET r == scan_documents(<<>>, fs, order, outcomes) IN
              /\ document_cache = r.cache
              /\ ret = r.documents
    /\ last = Event("scan_documents", NoPath, <<>>, 0)
    /\ fsChanges = 0
    /\ tasks = <<>>

CallTool ==
    /\ \E name \in CallNames :
       \E arguments \in ArgumentsOf(name) :
          LET entries == IF name = "scan_documents"
                         THEN {p \in Paths : Exists(fs, p)} ELSE {}
          IN  \E order \in Orders(entries), outcomes \in Outcomes(fs, entries) :
                 LET r == handle_call_tool(document_cache, fs, order, outcomes,
                                           name, arguments)
                 IN  /\ document_cache' = r.cache
                     /\ ret' = r
                     /\ last' = [op |-> "handle_call_tool", name |-> name,
                                 arguments |-> arguments]
    /\ UNCHANGED <<fs, fsChanges, tasks>>

HandlerNext == CallTool

HandlerSpec == HandlerInit /\ [][HandlerNext]_vars

(***************************************************************************)
(* The server on documents that are longer than a context window, or that  *)
(* hold U+0130, whose lower-casing is one character longer.                *)
(***************************************************************************)
Rep(c, n) == [i \in 1..n |-> c]

TxtWide ==
    Rep("x", 155) \o <<"a", "B", " ", " ", " ", "a", "B", "a", "b">> \o Rep("y", 155)
TxtDotted == Rep("I_dot", 151) \o <<"a", "b">>
TxtDot == <<"I_dot">>

SnippetVersions ==
    { [kind |-> "file", raw |-> TxtBlank,  size |-> 1,   mtime |-> 1],
      [kind |-> "file", raw |-> TxtMany,   size |-> 7,   mtime |-> 2],
      [kind |-> "file", raw |-> TxtLong,   size |-> 25,  mtime |-> 3],
      [kind |-> "file", raw |-> TxtWide,   size |-> 319, mtime |-> 4],
      [kind |-> "file", raw |-> TxtDotted, size |-> 304, mtime |-> 5],
      [kind |-> "file", raw |-> TxtDot,    size |-> 2,   mtime |-> 6] }

SnippetDirs ==
    {f \in [Paths -> SnippetVersions \cup {Absent}] :
        /\ f[[dir |-> "documents", name |-> Name_a_txt]] \in SnippetVersions
        /\ f[[dir |-> "documents/sub", name |-> Name_a_txt]]
              \in {Absent, VersionOf(TxtMany)}
        /\ f[[dir |-> "documents", name |-> Name_b_PDF]] = Absent
        /\ f[[dir |-> "documents", name |-> Name_c_xyz]] = Absent}

SnippetInit ==
    /\ fs \in SnippetDirs
    /\ LET entries == {p \in Paths : Exists(fs, p)} IN
       \E order \in Orders(entries), outcomes \in Outcomes(fs, entries) :
              LET r == scan_documents(<<>>, fs, order, outcomes) IN
              /\ document_cache = r.cache
              /\ ret = r.documents
    /\ last = Event("scan_documents", NoPath, <<>>, 0)
    /\ fsChanges = 0
    /\ tasks = <<>>

SnippetSpec == SnippetInit /\ [][SearchNext]_vars

(***************************************************************************)
(* detect_language on its own: a text is given, and a call classifies it.  *)
(* A text is a run of letters or of digits between a prefix and a suffix   *)
(* of blanks and punctuation.  last.detect tells what the detector did in  *)
(* the call, "not called" if the call did not reach it.                    *)
(***************************************************************************)
DetectTexts ==
    { prefix \o Rep(c, k) \o suffix :
        prefix \in {<<>>, <<" ">>, <<".">>},
        c \in {"a", "1"},
        k \in (MinDetectLen - 1)..MaxBodyLen,
        suffix \in {<<>>, <<"\n">>, <<"!">>, <<" ", " ">>, <<" ", "b">>} }
    \cup {<<"H", "i">>}

DetectInit ==
    /\ fs = [p \in Paths |-> Absent]
    /\ document_cache = <<>>
    /\ fsChanges = 0
    /\ tasks = <<>>
    /\ \E text \in DetectTexts :
          last = [op |-> "text", text |-> text, detect |-> "not called"]
    /\ ret = ""

DetectLanguage ==
    /\ \E outcome \in DetectResults(CleanText(last.text)) :
          /\ ret' = detect_language(last.text, outcome)
          /\ last' = [op |-> "detect_language", text |-> last.text,
                      detect |-> IF DetectorCalled(last.text)
                                 THEN outcome ELSE "not called"]
    /\ UNCHANGED <<fs, document_cache, fsChanges, tasks>>

DetectNext == DetectLanguage

DetectSpec == DetectInit /\ [][DetectNext]_vars

(***************************************************************************)
(* Tool calls in flight.  The server starts a task for every request; the  *)
(* event loop runs one task at a time and takes another one only when the  *)
(* running task awaits or returns.  A scan is taken file by file, as its   *)
(* loop goes; tasks[t].todo are the paths it has still to visit.           *)
(***************************************************************************)
MaxRequests == 2

\* a scan that awaits after every file of its loop
AwaitsAt_between_files(name) == name = "scan_documents"

\* the await expressions in the branch of a tool: handle_call_tool has none
AwaitsAt(name) == FALSE

ConcCalls ==
    { [name |-> "scan_documents",       arguments |-> PyNone],
      [name |-> "list_documents",       arguments |-> PyNone],
      [name |-> "get_document_stats",   arguments |-> PyNone],
      [name |-> "search_documents",
       arguments |-> PyDict([query |-> PyStr(<<"a", "b">>)])],
      [name |-> "get_document_content",
       arguments |-> PyDict([filename |-> PyStr(Name_a_txt)])] }

Pending(call) ==
    [name |-> call.name, arguments |-> call.arguments, pc |-> "pending",
     order |-> <<>>, todo |-> <<>>, documents |-> <<>>, result |-> <<>>]

\* the directory since the server started on an empty one
ConcDirs ==
    {f \in [Paths -> FileVersions \cup {Absent}] :
        /\ f[[dir |-> "documents", name |-> Name_a_txt]]
              \in {VersionOf(TxtMany), VersionOf(TxtLong)}
        /\ f[[dir |-> "documents/sub", name |-> Name_a_txt]] = Absent
        /\ f[[dir |-> "documents", name |-> Name_b_PDF]]
              \in {Absent, VersionOf(TxtMany)}
        /\ f[[dir |-> "documents", name |-> Name_c_xyz]] = VersionOf(TxtMany)}

\* requests have arrived at a server that was started on an empty
\* directory, into which files have been put since
ConcInit ==
    /\ fs \in ConcDirs
    /\ document_cache = <<>>
    /\ last = Event("scan_documents", NoPath, <<>>, 0)
    /\ ret = <<>>
    /\ fsChanges = 0
    /\ tasks \in [1..MaxRequests -> {Pending(call) : call \in ConcCalls}]

\* the loop is free for task t: t is running, or no task is running and t
\* waits at an await
Running(t) == tasks[t].pc = "running"
MayRun(t) ==
    \/ Running(t)
    \/ tasks[t].pc = "suspended" /\ \A s \in DOMAIN tasks : ~Running(s)

\* where a task is after a step of the branch of its tool
AfterStep(name) == IF AwaitsAt(name) THEN "suspended" ELSE "running"

Step(op, t) == [op |-> op, task |-> t]

\* the loop starts the task of a request; a scan lists the directory
BeginCall(t) ==
    /\ tasks[t].pc = "pending"
    /\ \A s \in DOMAIN tasks : ~Running(s)
    /\ LET entries == IF tasks[t].name = "scan_documents"
                      THEN {p \in Paths : Exists(fs, p)} ELSE {}
       IN  \E order \in Orders(entries) :
              tasks' = [tasks EXCEPT ![t].pc = "running",
                                     ![t].order = order,
                                     ![t].todo = order]
    /\ last' = Step("begin", t)
    /\ UNCHANGED <<fs, document_cache, ret, fsChanges>>

\* one turn of the loop of scan_documents
ScanFile(t) ==
    /\ tasks[t].name = "scan_documents"
    /\ MayRun(t)
    /\ tasks[t].todo # <<>>
    /\ LET p == Head(tasks[t].todo) IN
       \E outcomes \in Outcomes(fs, {p}) :
          LET r == IF IsScanned(fs, p)
                   THEN process_document(document_cache, fs, p, outcomes)
                   ELSE [cache |-> document_cache, doc |-> <<>>]
          IN  /\ document_cache' = r.cache
              /\ tasks' = [tasks EXCEPT ![t].todo = Tail(@),
                                        ![t].documents = @ \o r.doc,
                                        ![t].pc = AfterStep(tasks[t].name)]
    /\ last' = Step("scan_file", t)
    /\ UNCHANGED <<fs, ret, fsChanges>>

\* the scan has visited every path and the tool returns
ScanReturn(t) ==
    /\ tasks[t].name = "scan_documents"
    /\ MayRun(t)
    /\ tasks[t].todo = <<>>
    /\ tasks' = [tasks EXCEPT ![t].pc = "done",
                              ![t].result = ScanResult(tasks[t].documents)]
    /\ last' = Step("scan_return", t)
    /\ UNCHANGED <<fs, document_cache, ret, fsChanges>>

\* a tool that reads the cache runs and returns
ReadCall(t) ==
    /\ tasks[t].name # "scan_documents"
    /\ MayRun(t)
    /\ LET r == handle_call_tool(document_cache, fs, <<>>, <<>>,
                                 tasks[t].name, tasks[t].arguments)
       IN  /\ document_cache' = r.cache
           /\ tasks' = [tasks EXCEPT ![t].pc = "done", ![t].result = r.result]
    /\ last' = Step("read", t)
    /\ UNCHANGED <<fs, ret, fsChanges>>

ConcNext ==
    \E t \in DOMAIN tasks :
        \/ BeginCall(t)
        \/ ScanFile(t)
        \/ ScanReturn(t)
        \/ ReadCall(t)

ConcSpec == ConcInit /\ [][ConcNext]_vars

(***************************************************************************)
(* Properties.                                                             *)
(***************************************************************************)
IsScan    == last.op = "scan_documents"
IsProcess == last.op = "process_document"
IsSearch  == last.op = "search_documents"

\* the paths of a list of records or of matches
PathsOf(rs) == {rs[i].path : i \in 1..Len(rs)}

\* the records of a list, as a set
RecordsOf(rs) == {rs[i] : i \in 1..Len(rs)}

\* the file at p has a supported extension, compared case-insensitively
HasSupportedExt(p) == Lower(Suffix(p)) \in {Ext_pdf, Ext_docx, Ext_xlsx, Ext_txt}

\* the text the extractor of p yields now
TextNow(p) == ExtractText(fs, p, Lower(Suffix(p)))

\* the files under the root a scan should return a record for
Processable ==
    {p \in Paths : fs[p].kind = "file" /\ HasSupportedExt(p) /\ TextNow(p) # <<>>}

C2_GlobalCap ==
    IsSearch /\ last.max_results >= 0 => Len(ret) <= last.max_results

\* the number of start positions at which sub occurs in s
Occurrences(s, sub) ==
    Cardinality({i \in 0..Len(s) :
                    /\ i + Len(sub) <= Len(s)
                    /\ \A k \in 1..Len(sub) : s[i + k] = sub[k]})

RECURSIVE SumCapped(_, _)
SumCapped(cache, query) ==
    IF cache = <<>> THEN 0
    ELSE Min(5, Occurrences(Lower(Head(cache).doc.content), Lower(query)))
         + SumCapped(Tail(cache), query)

\* C3: for max_results >= 1, search_documents returns exactly
\* min(max_results, sum over the cached documents of min(5, number of
\* occurrences of the lower-cased query in the lower-cased content))
\* matches; an empty list when no cached document contains the query.
C3_MatchCount ==
    IsSearch /\ last.max_results >= 1 =>
        Len(ret) = Min(last.max_results, SumCapped(document_cache, last.query))

\* a search cut by the cap of 5 per document and not by max_results
C3_Witness ==
    /\ IsSearch
    /\ last.max_results >= 1
    /\ Len(ret) >= 1
    /\ Len(ret) < last.max_results
    /\ \E i \in 1..Len(document_cache) :
          Occurrences(Lower(document_cache[i].doc.content), Lower(last.query)) > 5

\* the indices of the matches of the document at path p, in emission order
MatchesOf(rs, p) == {i \in 1..Len(rs) : rs[i].path = p}

\* C4: at most 5 matches come from one document, every match has
\* 1 <= match_number <= total_matches <= 5, and the matches of one document
\* are numbered 1, 2, 3, ... in emission order with one total_matches.
C4_PerDocumentCap ==
    IsSearch =>
        /\ \A i \in 1..Len(ret) :
              /\ 1 <= ret[i].match_number
              /\ ret[i].match_number <= ret[i].total_matches
              /\ ret[i].total_matches <= 5
        /\ \A p \in PathsOf(ret) :
              /\ Cardinality(MatchesOf(ret, p)) <= 5
              /\ \A i \in MatchesOf(ret, p) :
                    /\ ret[i].match_number
                         = Cardinality({j \in MatchesOf(ret, p) : j <= i})
                    /\ \A j \in MatchesOf(ret, p) :
                          ret[j].total_matches = ret[i].total_matches

\* a search that returned 5 matches of one document and matches of another
C4_Witness ==
    /\ IsSearch
    /\ \E p \in PathsOf(ret) : Cardinality(MatchesOf(ret, p)) = 5
    /\ Cardinality(PathsOf(ret)) >= 2

\* where the matches are: document and position, in emission order
Places(rs) == [i \in 1..Len(rs) |-> <<rs[i].path, rs[i].position>>]

\* C5: two queries that are equal after lower-casing give, on the same cache
\* and with the same max_results, the same number of matches at the same
\* documents and positions.
C5_CaseInsensitive ==
    IsSearch =>
        \A other \in Queries :
            Lower(other) = Lower(last.query) =>
                Places(search_documents(document_cache, other, last.max_results))
                    = Places(ret)

\* a query with an upper-case letter has found something
C5_Witness ==
    /\ IsSearch
    /\ last.query # Lower(last.query)
    /\ ret # <<>>

\* C6: scan_documents returns exactly one record for every file under the
\* root with a supported extension and non-empty extracted text, and after
\* the scan each returned record is the cache entry under its own path.
C6_ScanReturnsProcessable ==
    IsScan =>
        /\ PathsOf(ret) = Processable
        /\ Len(ret) = Cardinality(Processable)
        /\ \A i \in 1..Len(ret) :
              /\ ret[i].path \in Keys(document_cache)
              /\ DictGet(document_cache, ret[i].path) = ret[i]

\* a scan returned the record of a file with an upper-case extension and
\* none for another file of the directory
C6_Witness ==
    /\ IsScan
    /\ \E i \in 1..Len(ret) : Suffix(ret[i].path) # Lower(Suffix(ret[i].path))
    /\ \E p \in Paths : Exists(fs, p) /\ p \notin Processable

\* C7 as stated: a scan_documents call that directly follows another one,
\* with no change of the directory in between, returns the same set of
\* records and leaves the cache as the first call left it.
C7_ScanIdempotent ==
    [][ last.op = "scan_documents" /\ last'.op = "scan_documents" =>
          /\ RecordsOf(ret') = RecordsOf(ret)
          /\ document_cache' = document_cache ]_vars

\* what holds of every cache entry
EntryOK(e) ==
    /\ e.key = e.doc.path
    /\ e.doc.content # <<>>
    /\ HasSupportedExt(e.key)
    /\ e.doc.file_type =
         (CASE Lower(Suffix(e.key)) = Ext_pdf  -> "PDF"
            [] Lower(Suffix(e.key)) = Ext_docx -> "Word Document"
            [] Lower(Suffix(e.key)) = Ext_xlsx -> "Excel Spreadsheet"
            [] Lower(Suffix(e.key)) = Ext_txt  -> "Text File")

C9_ProcessRejects ==
    [][ /\ last'.op = "process_document"
        /\ (~Exists(fs', last'.path) \/ ~HasSupportedExt(last'.path))
        => /\ ret' = <<>>
           /\ document_cache' = document_cache ]_vars

\* process_document was called on an existing file of an unsupported
\* extension, with documents in the cache
C9_Witness ==
    /\ IsProcess
    /\ fs[last.path].kind = "file"
    /\ fs[last.path].raw # <<>>
    /\ ~HasSupportedExt(last.path)
    /\ ret = <<>>
    /\ document_cache # <<>>

\* the files of a supported extension whose extractor fails or yields
\* empty text
Failing ==
    {p \in Paths : fs[p].kind = "file" /\ HasSupportedExt(p) /\ TextNow(p) = <<>>}

\* C10: when the extractor of one file fails or yields empty text during
\* scan_documents, the scan goes on: that file gets no record in the
\* returned list, and every other supported file with non-empty text is
\* returned and cached.
C10_FailureContained ==
    IsScan =>
        \A p \in Failing :
            /\ p \notin PathsOf(ret)
            /\ \A q \in Processable :
                  /\ q \in PathsOf(ret)
                  /\ q \in Keys(document_cache)
                  /\ DictGet(document_cache, q) \in RecordsOf(ret)

\* a scan met a failing file and returned the record of another file
C10_Witness ==
    /\ IsScan
    /\ Failing # {}
    /\ ret # <<>>

\* the last thing that happened is a call of the tool of this name
IsCall(name) == last.op = "handle_call_tool" /\ last.name = name

\* the sum of the values of a count map
RECURSIVE SumValues(_)
SumValues(counts) ==
    IF DOMAIN counts = {} THEN 0
    ELSE LET k == CHOOSE x \in DOMAIN counts : TRUE
         IN  counts[k] + SumValues([x \in DOMAIN counts \ {k} |-> counts[x]])

\* the sum of the sizes of the entries under the keys of K
RECURSIVE SizeOfKeys(_, _)
SizeOfKeys(cache, K) ==
    IF K = {} THEN 0
    ELSE LET k == CHOOSE x \in K : TRUE
         IN  DictGet(cache, k).size + SizeOfKeys(cache, K \ {k})

\* C11: get_document_stats on an empty cache returns a mapping whose only
\* key is total_documents, with value 0; on a non-empty cache
\* total_documents is the number of entries, total_size_bytes the sum of
\* their sizes, and languages and file_types count the entries per
\* language and per file type, so the values of each sum to
\* total_documents.
C11_Stats ==
    IsCall("get_document_stats") =>
        /\ ret.raised = ""
        /\ ret.result.status = "success"
        /\ LET stats == ret.result.stats
               n == Len(document_cache)
           IN  IF n = 0
               THEN /\ DOMAIN stats = {"total_documents"}
                    /\ stats.total_documents = 0
               ELSE /\ stats.total_documents = n
                    /\ stats.total_size_bytes
                         = SizeOfKeys(document_cache, Keys(document_cache))
                    /\ DOMAIN stats.languages
                         = {document_cache[i].doc.language : i \in 1..n}
                    /\ \A l \in DOMAIN stats.languages :
                          stats.languages[l]
                            = Cardinality({i \in 1..n :
                                              document_cache[i].doc.language = l})
                    /\ DOMAIN stats.file_types
                         = {document_cache[i].doc.file_type : i \in 1..n}
                    /\ \A t \in DOMAIN stats.file_types :
                          stats.file_types[t]
                            = Cardinality({i \in 1..n :
                                              document_cache[i].doc.file_type = t})
                    /\ SumValues(stats.languages) = n
                    /\ SumValues(stats.file_types) = n

\* statistics of three documents in two languages and of two file types
C11_Witness ==
    /\ IsCall("get_document_stats")
    /\ Len(document_cache) = 3
    /\ Cardinality(DOMAIN ret.result.stats.languages) = 2
    /\ Cardinality(DOMAIN ret.result.stats.file_types) = 2
    /\ ret.result.stats.total_size_bytes = 39

\* the last call gave the tool the argument of this key
GaveArg(key) ==
    /\ last.arguments.type = "dict"
    /\ key \in DOMAIN last.arguments.items

\* the places in the cache of the records with the requested filename
Holders(filename) ==
    {i \in 1..Len(document_cache) :
        /\ filename.type = "str"
        /\ document_cache[i].doc.filename = filename.str}

\* C12: get_document_content returns the error "Document '<name>' not
\* found" exactly when no cached record has the requested filename;
\* otherwise it returns status success with the path, the metadata and the
\* full content of the first record, in cache order, with that filename.
C12_ContentLookup ==
    IsCall("get_document_content") /\ GaveArg("filename") =>
        LET filename == last.arguments.items["filename"]
            holders == Holders(filename)
        IN  /\ ret.raised = ""
            /\ (holders = {}) <=> (ret.result.status = "error")
            /\ holders = {} =>
                  ret.result.message
                    = <<"Document '", FormatValue(filename), "' not found">>
            /\ holders # {} =>
                  LET first == CHOOSE i \in holders : \A j \in holders : i <= j
                      doc == document_cache[first].doc
                  IN  /\ ret.result.status = "success"
                      /\ ret.result.filename = filename.str
                      /\ ret.result.path = doc.path
                      /\ ret.result.language = doc.language
                      /\ ret.result.file_type = doc.file_type
                      /\ ret.result.size = doc.size
                      /\ ret.result.content = doc.content

\* two cached records share the requested filename and differ in content
C12_Witness ==
    /\ IsCall("get_document_content")
    /\ GaveArg("filename")
    /\ ret.result.status = "success"
    /\ \E i, j \in Holders(last.arguments.items["filename"]) :
          /\ i < j
          /\ document_cache[i].doc.content # document_cache[j].doc.content
          /\ ret.result.path = document_cache[i].doc.path

\* the arguments are None, or a dict (the empty one too) without the key
LacksKey(arguments, key) ==
    \/ arguments.type = "NoneType"
    \/ arguments.type = "dict" /\ key \notin DOMAIN arguments.items

\* C13: a search_documents call whose arguments lack query, and a
\* get_document_content call whose arguments lack filename (arguments
\* missing or empty included), returns the structured error result, raises
\* nothing and leaves the cache as it was.
C13_MissingArgument ==
    [][ /\ (/\ last'.op = "handle_call_tool"
            /\ last'.name = "search_documents"
            /\ LacksKey(last'.arguments, "query")
            => /\ ret'.raised = ""
               /\ ret'.result = [error |-> "query parameter is required"]
               /\ document_cache' = document_cache)
        /\ (/\ last'.op = "handle_call_tool"
            /\ last'.name = "get_document_content"
            /\ LacksKey(last'.arguments, "filename")
            => /\ ret'.raised = ""
               /\ ret'.result = [error |-> "filename parameter is required"]
               /\ document_cache' = document_cache) ]_vars

\* search_documents was called on a cache with documents, with arguments
\* that hold other keys than query
C13_Witness ==
    /\ IsCall("search_documents")
    /\ last.arguments.type = "dict"
    /\ DOMAIN last.arguments.items # {}
    /\ "query" \notin DOMAIN last.arguments.items
    /\ document_cache # <<>>
    /\ ret.result = [error |-> "query parameter is required"]

\* the internal-error result for an exception of this name
InternalError(exc) == [error |-> <<"Internal server error: ", exc>>]

\* C14: every handle_call_tool invocation, whatever the tool name and the
\* arguments, returns a result and raises nothing: an unknown tool name
\* gives the "Unknown tool" error result, and an exception raised inside an
\* operation (a query that is no string, a max_results that is no number
\* compared with the length of the results) is returned as the
\* internal-error result.
C14_AlwaysReturns ==
    last.op = "handle_call_tool" =>
        /\ ret.raised = ""
        /\ ret.result # <<>>
        /\ last.name \notin ToolNames =>
              ret.result = [error |-> <<"Unknown tool: ", last.name>>]
        /\ last.name = "search_documents" /\ GaveArg("query") =>
              LET query == last.arguments.items["query"]
                  bad_max == /\ "max_results" \in DOMAIN last.arguments.items
                             /\ last.arguments.items["max_results"].type # "int"
              IN  /\ query.type # "str" =>
                         ret.result = InternalError("AttributeError")
                  /\ query.type = "str" /\ bad_max /\ document_cache # <<>> =>
                         ret.result = InternalError("TypeError")
                  /\ query.type = "str" /\ (~bad_max \/ document_cache = <<>>) =>
                         /\ ret.result.status = "success"
                         /\ ret.result.results_count = Len(ret.result.results)

\* a search with max_results = None failed on a cache with documents and
\* came back as an internal error
C14_Witness ==
    /\ IsCall("search_documents")
    /\ document_cache # <<>>
    /\ GaveArg("max_results")
    /\ last.arguments.items["max_results"] = PyNone
    /\ ret.raised = ""
    /\ ret.result = InternalError("TypeError")

\* the tools that only read the cache
ReadTools ==
    {"search_documents", "get_document_stats", "list_documents",
     "get_document_content"}

\* C15: search_documents, get_document_stats, list_documents and
\* get_document_content are read-only: whatever their arguments and their
\* outcome, the cache after the call is the cache before it.
C15_ReadOnly ==
    [][ last'.op = "handle_call_tool" /\ last'.name \in ReadTools
        => document_cache' = document_cache ]_vars

\* list_documents has listed a cache of several documents, which are all
\* still there
C15_Witness ==
    /\ IsCall("list_documents")
    /\ ret.result.total_documents >= 2
    /\ Len(document_cache) = ret.result.total_documents
    /\ \A i \in 1..Len(document_cache) :
          ret.result.documents[i].path = document_cache[i].doc.path

\* the scan of task s has changed the cache for some of its files and has
\* others still to visit
ScanInPart(s) ==
    /\ tasks[s].name = "scan_documents"
    /\ tasks[s].pc \in {"running", "suspended"}
    /\ Len(tasks[s].todo) < Len(tasks[s].order)
    /\ tasks[s].todo # <<>>

\* the tasks between their first step and their return
InFlight == {t \in DOMAIN tasks : tasks[t].pc \in {"running", "suspended"}}

\* C16: tool calls run one at a time to completion: whatever the order in
\* which the loop takes the concurrent requests, at most one call is
\* between its start and its return, and no search, list, stats or
\* get-content call reads the cache while a scan has been applied to it
\* only in part.
C16_NoPartialScanObserved ==
    /\ [](Cardinality(InFlight) <= 1)
    /\ [][ \A t \in DOMAIN tasks :
              /\ tasks[t].name \in ReadTools
              /\ tasks[t].pc # "done"
              /\ tasks'[t].pc = "done"
              => \A s \in DOMAIN tasks : ~ScanInPart(s) ]_vars

\* a scan that cached a document and a listing have both returned, and the
\* listing, which was taken after the scan, shows every document
C16_Witness ==
    /\ \E s, t \in DOMAIN tasks :
          /\ tasks[s].name = "scan_documents"
          /\ tasks[s].pc = "done"
          /\ Len(tasks[s].order) >= 2
          /\ tasks[t].name = "list_documents"
          /\ tasks[t].pc = "done"
          /\ tasks[t].result.total_documents = Len(document_cache)
    /\ document_cache # <<>>

\* the cached content of the document a match was found in
ContentOf(r) == DictGet(document_cache, r.path).content

\* the window and the matched text of a match of the last search
WindowOf(r) == ContextWindow(ContentOf(r), last.query, r.position)
MatchedOf(r) == Matched(ContentOf(r), last.query, r.position)

IsStar(c) == c = "*"
NoStar(c) == c # "*"

C18_WindowHoldsMatch ==
    IsSearch =>
        \A i \in 1..Len(ret) :
            LET content == ContentOf(ret[i])
                pos     == ret[i].position
                n       == Len(last.query)
                window  == WindowOf(ret[i])
            IN  /\ window = SubSeq(content, Max(0, pos - 150) + 1,
                                   Min(Len(content), pos + n + 150))
                /\ \E before \in 0..Len(window) :
                      /\ before <= 150
                      /\ before + n <= Len(window)
                      /\ Len(window) - (before + n) <= 150
                      /\ Lower(SubSeq(window, before + 1, before + n))
                           = Lower(last.query)

\* the indices at which sub occurs in s
OccurrencesAt(s, sub) ==
    {i \in 0..(Len(s) - Len(sub)) : SubSeq(s, i + 1, i + Len(sub)) = sub}

\* the j-th smallest element of a set of numbers
Nth(S, j) == CHOOSE x \in S : Cardinality({y \in S : y <= x}) = j

\* C19 as stated: within one document the match positions are the up to 5
\* smallest indices, in increasing order, at which the lower-cased query
\* occurs in the lower-cased content, overlapping occurrences counted; for
\* the empty query they are 0, 1, 2, ... up to min(4, len(content)).
C19_MatchPositions ==
    IsSearch =>
        \A i \in 1..Len(ret) :
            LET content == ContentOf(ret[i])
                found   == OccurrencesAt(Lower(content), Lower(last.query))
            IN  /\ ret[i].total_matches = Min(5, Cardinality(found))
                /\ ret[i].position = Nth(found, ret[i].match_number)
                /\ \A j \in 1..Len(ret) :
                      /\ ret[j].path = ret[i].path
                      /\ ret[j].match_number < ret[i].match_number
                      => ret[j].position < ret[i].position
                /\ last.query = <<>> =>
                      /\ ret[i].total_matches = Min(4, Len(content)) + 1
                      /\ ret[i].position = ret[i].match_number - 1
                      /\ ret[i].position <= Min(4, Len(content))

\* the places of a text that hold no punctuation
KeptAt(text) == {i \in 1..Len(text) : text[i] \notin {".", ",", "!", "*", "c_dot"}}

\* the number of characters left after the punctuation is taken out
CleanLen(text) == Cardinality(KeptAt(text))

\* the same, not counting the blanks before the first and after the last
\* character that is not a blank
TrimmedCleanLen(text) ==
    LET solid == {i \in KeptAt(text) : text[i] \notin {" ", "\n"}}
    IN  Cardinality({i \in KeptAt(text) :
                        \E a, b \in solid : a <= i /\ i <= b})

IsDetect == last.op = "detect_language"

\* C20 as stated: detect_language returns "unknown" without invoking the
\* detector when the punctuation-stripped text has fewer than 21
\* characters and delegates to the detector otherwise; it returns
\* "unknown" whenever the detector fails, and never raises.
C20_ShortTextUnknown ==
    IsDetect =>
        /\ CleanLen(last.text) < 21 => last.detect = "not called" /\ ret = "unknown"
        /\ CleanLen(last.text) >= 21 => last.detect # "not called"
        /\ last.detect = "raise" => ret = "unknown"
        /\ ret \in {"unknown", "en", "ja"}

\* C20 amended: detect_language returns "unknown" without invoking the
\* detector when the punctuation-stripped text, without the whitespace at
\* its ends, has fewer than 21 characters, and otherwise returns what the
\* detector returns; it returns "unknown" whenever the detector fails, and
\* never raises.
C20_ShortTrimmedTextUnknown ==
    IsDetect =>
        /\ TrimmedCleanLen(last.text) < 21 =>
              last.detect = "not called" /\ ret = "unknown"
        /\ TrimmedCleanLen(last.text) >= 21 =>
              /\ last.detect # "not called"
              /\ last.detect # "raise" => ret = last.detect
        /\ last.detect = "raise" => ret = "unknown"
        /\ ret \in {"unknown", "en", "ja"}

\* a text of 21 characters without its punctuation, the last of them a
\* newline, was classified without the detector
C20_Witness ==
    /\ IsDetect
    /\ CleanLen(last.text) = 21
    /\ TrimmedCleanLen(last.text) = 20
    /\ last.detect = "not called"
    /\ ret = "unknown"

\* the paths for which the step into the next state has returned a record:
\* those of a process_document or scan_documents call, or of the
\* scan_documents tool
ProcessedNext ==
    IF last'.op \in {"scan_documents", "process_document"}
    THEN {ret'[i].path : i \in 1..Len(ret')}
    ELSE IF last'.op = "handle_call_tool" /\ last'.name = "scan_documents"
    THEN {ret'.result.documents[i].path : i \in 1..Len(ret'.result.documents)}
    ELSE {}

\* C21: the cache key set never shrinks.  In every step (a scan, a
\* process_document call, a read, a change of the directory from outside)
\* a path that is cached stays cached, and its record changes only when
\* this step has processed that same path with success, to the record made
\* from the file as it is now.
C21_KeysNeverShrink ==
    [][ \A k \in Keys(document_cache) :
           /\ k \in Keys(document_cache')
           /\ DictGet(document_cache', k) # DictGet(document_cache, k) =>
                 /\ k \in ProcessedNext
                 /\ DictGet(document_cache', k).content
                      = ExtractText(fs', k, Lower(Suffix(k)))
                 /\ DictGet(document_cache', k).content # <<>> ]_vars

\* process_document has failed on a cached path whose file is gone, and
\* the entry is still there with its content
C21_Witness ==
    /\ IsProcess
    /\ ~Exists(fs, last.path)
    /\ ret = <<>>
    /\ last.path \in Keys(document_cache)
    /\ DictGet(document_cache, last.path).content # <<>>

\* the place of the entry of path p in the cache
PlaceOf(p) == CHOOSE i \in 1..Len(document_cache) : document_cache[i].key = p

\* C22: in every search result list the matches of one document stand
\* together and the documents come in cache order; every document but the
\* last of the list has as many matches in the list as its total_matches
\* says, and only the last one may have fewer (cut by max_results).
C22_ResultListShape ==
    IsSearch =>
        /\ \A i, j \in 1..Len(ret) :
              i < j => PlaceOf(ret[i].path) <= PlaceOf(ret[j].path)
        /\ \A i, k \in 1..Len(ret) :
              i < k /\ ret[i].path = ret[k].path =>
                 \A j \in i..k : ret[j].path = ret[i].path
        /\ \A i \in 1..Len(ret) :
              LET listed == Cardinality(MatchesOf(ret, ret[i].path)) IN
              IF ret[i].path = ret[Len(ret)].path
              THEN listed <= ret[i].total_matches
              ELSE listed = ret[i].total_matches

\* a search returned all 5 matches of one document and then fewer than
\* total_matches of the next, where max_results cut the list
C22_Witness ==
    /\ IsSearch
    /\ Len(ret) = last.max_results
    /\ Cardinality(PathsOf(ret)) = 2
    /\ Cardinality(MatchesOf(ret, ret[1].path)) = 5
    /\ Cardinality(MatchesOf(ret, ret[Len(ret)].path)) < ret[Len(ret)].total_matches

====
